---------------------------- MODULE Spec2Model ----------------------------
(***************************************************************************)
(* A model of the Divina Commedia PDF -> JSON pipelines                     *)
(* (src/divina_full_pipeline.py and src/divina_pipeline.py).                *)
(*                                                                         *)
(* A Python str is modelled as a sequence of one-character strings, so     *)
(* that slicing, escaping, formatting and regular-expression matching are  *)
(* computed character by character.  Characters outside ASCII that the     *)
(* source's patterns mention are written as named characters ("A_GRAVE",   *)
(* "EN_DASH", "SHY", ...).                                                 *)
(***************************************************************************)
EXTENDS Integers, Sequences, FiniteSets, TLC

(***************************************************************************)
(* Bounds of the model.                                                    *)
(***************************************************************************)
MaxLines == 6       \* lines consumed by one run of run_pipeline
MaxPages == 2       \* pages of the PDF
MaxVerses == 7      \* verses added to the stand-alone CantoBuffer
MaxBlockSize == 4   \* largest --block-size and --block-overlap tried (the smallest is -1)

\* an Optional[T] is a sequence of at most one T
None == <<>>
Some(x) == <<x>>

(***************************************************************************)
(* Characters.                                                             *)
(***************************************************************************)
UpperAZ == <<"A","B","C","D","E","F","G","H","I","J","K","L","M",
             "N","O","P","Q","R","S","T","U","V","W","X","Y","Z">>
LowerAZ == <<"a","b","c","d","e","f","g","h","i","j","k","l","m",
             "n","o","p","q","r","s","t","u","v","w","x","y","z">>
UpperAccented == <<"A_GRAVE","E_GRAVE","E_ACUTE","I_GRAVE","O_GRAVE","U_GRAVE">>
LowerAccented == <<"a_grave","e_grave","e_acute","i_grave","o_grave","u_grave">>
DigitChars == <<"0","1","2","3","4","5","6","7","8","9">>

Range(s) == {s[i] : i \in 1..Len(s)}

\* [F(x) for x in s], as a tuple
RECURSIVE Map(_, _)
Map(F(_), s) == IF s = <<>> THEN <<>> ELSE <<F(Head(s))>> \o Map(F, Tail(s))

UpperSet == Range(UpperAZ)
LowerSet == Range(LowerAZ)
DigitSet == Range(DigitChars)
AccentedSet == Range(UpperAccented) \cup Range(LowerAccented)
Whitespace == {" "}
\* every character of the model; "." of a pattern matches any of them
AnyChar == UpperSet \cup LowerSet \cup DigitSet \cup AccentedSet \cup Whitespace
             \cup {"&", "<", ">", ".", "-", "'", ",", "/", "=", "EN_DASH", "SHY", "RSQUO"}
\* \w of Python's re on str: letters, digits, underscore
WordChars == UpperSet \cup LowerSet \cup DigitSet \cup AccentedSet \cup {"_"}

\* code-point order of the characters that occur in identifiers
CodeOrder == <<"-", ".">> \o DigitChars \o LowerAZ
Ord(c) == CHOOSE i \in 1..Len(CodeOrder) : CodeOrder[i] = c

IndexIn(s, c) == CHOOSE i \in 1..Len(s) : s[i] = c

\* str.upper() / str.lower() on one character
UpperChar(c) ==
    IF c \in LowerSet THEN UpperAZ[IndexIn(LowerAZ, c)]
    ELSE IF c \in Range(LowerAccented) THEN UpperAccented[IndexIn(LowerAccented, c)]
    ELSE c
LowerChar(c) ==
    IF c \in UpperSet THEN LowerAZ[IndexIn(UpperAZ, c)]
    ELSE IF c \in Range(UpperAccented) THEN LowerAccented[IndexIn(UpperAccented, c)]
    ELSE c
Upper(s) == Map(UpperChar, s)
Lower(s) == Map(LowerChar, s)

\* s[i:j] of Python, 0-based, j exclusive, clipped to the string
Slice(s, i, j) ==
    LET hi == IF j > Len(s) THEN Len(s) ELSE j
    IN  IF i >= hi THEN <<>> ELSE SubSeq(s, i + 1, hi)

StartsWith(s, p) == Len(s) >= Len(p) /\ SubSeq(s, 1, Len(p)) = p

\* str.strip()
RECURSIVE LStrip(_)
LStrip(s) == IF s # <<>> /\ Head(s) \in Whitespace THEN LStrip(Tail(s)) ELSE s
RECURSIVE RStrip(_)
RStrip(s) ==
    IF s # <<>> /\ s[Len(s)] \in Whitespace THEN RStrip(SubSeq(s, 1, Len(s) - 1)) ELSE s
Strip(s) == LStrip(RStrip(s))

\* str.split(): the maximal runs of non-whitespace characters
RECURSIVE SplitFrom(_, _, _, _)
SplitFrom(s, i, cur, acc) ==
    IF i > Len(s) THEN (IF cur = <<>> THEN acc ELSE Append(acc, cur))
    ELSE IF s[i] \in Whitespace
         THEN SplitFrom(s, i + 1, <<>>, IF cur = <<>> THEN acc ELSE Append(acc, cur))
         ELSE SplitFrom(s, i + 1, Append(cur, s[i]), acc)
Split(s) == SplitFrom(s, 1, <<>>, <<>>)

\* str.replace(c, r) for a one-character c
RECURSIVE Replace(_, _, _)
Replace(s, c, r) ==
    IF s = <<>> THEN <<>>
    ELSE (IF Head(s) = c THEN r ELSE <<Head(s)>>) \o Replace(Tail(s), c, r)

\* format(n, "0{w}d") for n >= 0
RECURSIVE Digits(_)
Digits(n) == IF n < 10 THEN <<DigitChars[n + 1]>>
             ELSE Append(Digits(n \div 10), DigitChars[(n % 10) + 1])
RECURSIVE ZeroFill(_, _)
ZeroFill(s, w) == IF Len(s) >= w THEN s ELSE ZeroFill(<<"0">> \o s, w)
Fmt(n, w) == ZeroFill(Digits(n), w)

(***************************************************************************)
(* Regular expressions.  A pattern is a sequence of items [cls, q]: a set  *)
(* of characters and a quantifier "1", "*" or "+".  Every pattern of the   *)
(* source is anchored at both ends (re.match and a final $).               *)
(***************************************************************************)
One(cls) == <<[cls |-> cls, q |-> "1"]>>
Star(cls) == <<[cls |-> cls, q |-> "*"]>>
Plus(cls) == <<[cls |-> cls, q |-> "+"]>>
Lit(s) == Map(LAMBDA c : [cls |-> {c}, q |-> "1"], s)

RECURSIVE MatchFrom(_, _, _, _)
MatchFrom(pat, i, s, j) ==
    IF i > Len(pat) THEN j > Len(s)
    ELSE LET it == pat[i]
             here == j <= Len(s) /\ s[j] \in it.cls
         IN  CASE it.q = "1" -> here /\ MatchFrom(pat, i + 1, s, j + 1)
               [] it.q = "*" -> MatchFrom(pat, i + 1, s, j)
                                  \/ (here /\ MatchFrom(pat, i, s, j + 1))
               [] it.q = "+" -> here /\ (MatchFrom(pat, i + 1, s, j + 1)
                                           \/ MatchFrom(pat, i, s, j + 1))
\* re.match(pat, s)
Match(pat, s) == MatchFrom(pat, 1, s, 1)
\* re.match(pat, s, flags=re.IGNORECASE) is Match(pat, Upper(s)), the pattern being
\* written in upper case


(***************************************************************************)
(* Configurazione pattern (divina_full_pipeline.py, lines 18-52).          *)
(***************************************************************************)
S_INFERNO == <<"I","N","F","E","R","N","O">>
S_PURGATORIO == <<"P","U","R","G","A","T","O","R","I","O">>
S_PARADISO == <<"P","A","R","A","D","I","S","O">>
S_Inferno == <<"I","n","f","e","r","n","o">>
S_Purgatorio == <<"P","u","r","g","a","t","o","r","i","o">>
S_Paradiso == <<"P","a","r","a","d","i","s","o">>

\* CANTICHE_TITLES: the dict, as a function on its keys
CanticaKeys == {S_INFERNO, S_PURGATORIO, S_PARADISO}
CANTICHE_TITLES == [k \in CanticaKeys |->
    IF k = S_INFERNO THEN S_Inferno ELSE IF k = S_PURGATORIO THEN S_Purgatorio ELSE S_Paradiso]
Cantiche == {CANTICHE_TITLES[k] : k \in CanticaKeys}

WS0 == Star(Whitespace)
WS1 == Plus(Whitespace)

\* [A-ZÀÈÉÌÒÙ]
CantoLetters == UpperSet \cup Range(UpperAccented)
\* ^\s*CANTO\s+[A-ZÀÈÉÌÒÙ]+(\s+[A-ZÀÈÉÌÒÙ]+)?\s*$ : the optional group absent, or present
CANTO_HEADER_1 ==
    WS0 \o Lit(<<"C","A","N","T","O">>) \o WS1 \o Plus(CantoLetters) \o WS0
CANTO_HEADER_2 ==
    WS0 \o Lit(<<"C","A","N","T","O">>) \o WS1 \o Plus(CantoLetters)
        \o WS1 \o Plus(CantoLetters) \o WS0
CANTO_HEADER_RE(line) == Match(CANTO_HEADER_1, line) \/ Match(CANTO_HEADER_2, line)

\* ^\s*(INFERNO|PURGATORIO|PARADISO)\s*$ with re.IGNORECASE: the set of the
\* alternatives that match (empty when the line does not match)
CanticaGroups(line) ==
    LET u == Upper(line)
    IN  {k \in CanticaKeys : Match(WS0 \o Lit(k) \o WS0, u)}
CANTICA_HEADER_RE(line) == CanticaGroups(line) # {}
\* CANTICA_HEADER_RE.match(line).group(1).upper()
CanticaTitle(line) == CHOOSE k \in CanticaGroups(line) : TRUE

\* ^[A-Z\s\.\-]+$
CAPS_RE == Plus(UpperSet \cup Whitespace \cup {".", "-"})

\* the patterns are matched with re.IGNORECASE: they are written in upper case
HEADER_PATTERNS == <<
    WS0 \o Lit(<<"L","A">>) \o WS1 \o Lit(<<"D","I","V","I","N","A">>) \o WS1 \o Lit(<<"C","O","M","M","E","D","I","A">>) \o WS0,
    WS0 \o Lit(<<"D","A","N","T","E">>) \o WS1 \o Lit(<<"A","L","I","G","H","I","E","R","I">>) \o WS0,
    WS0 \o Lit(<<"P","R","O","P","R","I","E","T">>) \o One({"A", "A_GRAVE"}) \o WS1 \o Lit(<<"L","E","T","T","E","R","A","R","I","A">>) \o Star(AnyChar),
    WS0 \o Lit(<<"M","I","L","A","N","O",".">>) \o WS0 \o Lit(<<"EN_DASH">>) \o WS0 \o Lit(<<"T","I","P",".">>)
        \o WS0 \o Lit(<<"T","R","E","V","E","S",".">>) \o WS0,
    WS0 \o Lit(<<"P","R","E","F","A","Z","I","O","N","E">>) \o WS0,
    WS0 \o Lit(<<"I","N","D","I","C","E">>) \o Star(AnyChar),
    WS0 \o Lit(<<"L","I","B","E","R">>) \o WS1 \o Lit(<<"L","I","B","E","R">>) \o WS0 >>

FOOTER_PATTERNS == <<
    WS0 \o Plus(DigitSet) \o WS0 >>

ILLUSTRATION_PATTERNS == <<
    WS0 \o Lit(<<"R","A","F","F","A","E","L","L","O",".">>) \o Star(AnyChar),
    WS0 \o Lit(<<"M","I","C","H","E","L","A","N","G","E","L","O",".">>) \o Star(AnyChar),
    WS0 \o Lit(<<"L","U","C","A">>) \o WS1 \o Lit(<<"S","I","G","N","O","R","E","L","L","I",".">>) \o Star(AnyChar),
    WS0 \o Lit(<<"D","I","S","E","G","N","O">>) \o WS1 \o Lit(<<"D","I">>) \o WS1 \o Star(AnyChar),
    WS0 \o Lit(<<"M","I","N","I","A","T","U","R","A">>) \o WS1 \o Lit(<<"D","E","L">>) \o WS1 \o Star(AnyChar),
    WS0 \o Lit(<<"P","A","G","I","N","A">>) \o WS1 \o Lit(<<"D","E","L">>) \o WS1 \o Lit(<<"D","A","N","T","E">>) \o Star(AnyChar) >>

(***************************************************************************)
(* The line classifier.                                                    *)
(***************************************************************************)
NOISE_PATTERNS == HEADER_PATTERNS \o FOOTER_PATTERNS \o ILLUSTRATION_PATTERNS

looks_like_noise(line) ==
    LET u == Upper(line)
    IN  \E i \in 1..Len(NOISE_PATTERNS) : Match(NOISE_PATTERNS[i], u)

clean_line(line) == Strip(Replace(Replace(line, "SHY", <<>>), "RSQUO", <<"RSQUO">>))

\* re.sub(r"\W+", "", line)
StripNonWord(line) == SelectSeq(line, LAMBDA c : c \in WordChars)

is_probable_verse_nonoise(line) ==
    IF line = <<>> THEN FALSE
    ELSE IF Match(CAPS_RE, line)
              /\ Len(Split(line)) <= 4
              /\ ~CANTO_HEADER_RE(line) /\ ~CANTICA_HEADER_RE(line) THEN FALSE
    ELSE IF CANTO_HEADER_RE(line) \/ CANTICA_HEADER_RE(line) THEN FALSE
    ELSE IF Len(StripNonWord(line)) < 2 THEN FALSE
    ELSE TRUE

is_probable_verse(line) ==
    IF line = <<>> THEN FALSE
    ELSE IF looks_like_noise(line) THEN FALSE
    ELSE IF Match(CAPS_RE, line)
              /\ Len(Split(line)) <= 4
              /\ ~CANTO_HEADER_RE(line) /\ ~CANTICA_HEADER_RE(line) THEN FALSE
    ELSE IF CANTO_HEADER_RE(line) \/ CANTICA_HEADER_RE(line) THEN FALSE
    ELSE IF Len(StripNonWord(line)) < 2 THEN FALSE
    ELSE TRUE

\* [A-Za-zÀ-ÖØ-öø-ÿ’']
WordLetters == UpperSet \cup LowerSet \cup AccentedSet \cup {"RSQUO", "'"}
\* re.findall(r"[...]+", text)[-1]: the last maximal run of letters
RECURSIVE LastRun(_, _)
LastRun(text, j) ==
    IF j = 0 \/ text[j] \notin WordLetters THEN <<>>
    ELSE Append(LastRun(text, j - 1), text[j])
RECURSIVE LastLetter(_, _)
LastLetter(text, j) ==
    IF j = 0 THEN 0 ELSE IF text[j] \in WordLetters THEN j ELSE LastLetter(text, j - 1)
last_word(text) == Lower(LastRun(text, LastLetter(text, Len(text))))

(***************************************************************************)
(* Identifiers and markup.                                                 *)
(***************************************************************************)
ValueError == <<"ValueError">>     \* the exception short_cantica raises

short_cantica(cantica) ==
    LET c == Lower(Strip(cantica))
    IN  IF StartsWith(c, <<"i","n","f">>) THEN <<"i","n","f">>
        ELSE IF StartsWith(c, <<"p","u","r">>) THEN <<"p","u","r","g">>
        ELSE IF StartsWith(c, <<"p","a","r">>) THEN <<"p","a","r">>
        ELSE ValueError


\* a raised ValueError propagates through the f-string
verse_urn_nocanto(cantica, canto, n) ==
    IF short_cantica(cantica) = ValueError THEN ValueError
    ELSE short_cantica(cantica) \o <<".">> \o Fmt(n, 3)

verse_urn(cantica, canto, n) ==
    IF short_cantica(cantica) = ValueError THEN ValueError
    ELSE short_cantica(cantica) \o <<".">> \o Fmt(canto, 2) \o <<".">> \o Fmt(n, 3)

S_amp == <<"&","a","m","p",";">>
S_lt == <<"&","l","t",";">>
S_gt == <<"&","g","t",";">>
S_s_open == <<"<","s",">">>
S_s_close == <<"<","/","s",">">>
S_p_open == <<"<","p",">">>
S_p_close == <<"<","/","p",">">>
S_break_220 == <<"<","b","r","e","a","k"," ","t","i","m","e","=","'","2","2","0","m","s","'","/",">">>
S_break_120 == <<"<","b","r","e","a","k"," ","t","i","m","e","=","'","1","2","0","m","s","'","/",">">>

ssml_for_verso(text) ==
    LET safe == Replace(Replace(Replace(text, "&", S_amp), "<", S_lt), ">", S_gt)
    IN  S_s_open \o safe \o S_s_close

\* ''.join(parts) of the loop "for i, t in enumerate(verses_texts, start=1)", from i on
RECURSIVE ssml_block_parts(_, _)
ssml_block_parts(verses_texts, i) ==
    IF i > Len(verses_texts) THEN <<>>
    ELSE S_s_open \o verses_texts[i] \o S_s_close
           \o (IF i % 3 = 0 THEN S_break_220 ELSE S_break_120)
           \o ssml_block_parts(verses_texts, i + 1)

ssml_block(verses_texts) ==
    S_p_open \o ssml_block_parts(verses_texts, 1) \o S_p_close

\* "aba"[k]
S_aba == <<"a","b","a">>

\* [v["urn"] for v in chunk]
Urns(chunk) == Map(LAMBDA v : v.urn, chunk)
\* [c["text_original"] for c in chunk]
Texts(chunk) == Map(LAMBDA v : v.text_original, chunk)

\* f"{chunk[0]['urn'][:-3]}{start_no:03d}-{end_no:03d}"
RangeUrn(chunk) ==
    LET u == chunk[1].urn
    IN  Slice(u, 0, Len(u) - 3) \o Fmt(chunk[1].number, 3) \o <<"-">>
          \o Fmt(chunk[Len(chunk)].number, 3)

(***************************************************************************)
(* group_terzine: the loop for i in range(0, len(verses), 3), from index i *)
(* with the terzine collected so far in out.                               *)
(***************************************************************************)
RECURSIVE group_terzine_from(_, _, _)
group_terzine_from(verses, i, out) ==
    IF i >= Len(verses) THEN out
    ELSE LET chunk == Slice(verses, i, i + 3)
         IN  IF Len(chunk) < 3 THEN out
             ELSE group_terzine_from(verses, i + 3, Append(out,
                    [urn |-> RangeUrn(chunk),
                     start_verso |-> chunk[1].number,
                     end_verso |-> chunk[Len(chunk)].number,
                     rhyme_scheme |-> S_aba,
                     versi |-> Urns(chunk)]))

\* the loop without "if len(chunk) < 3: break"
RECURSIVE group_terzine_keep_short_from(_, _, _)
group_terzine_keep_short_from(verses, i, out) ==
    IF i >= Len(verses) THEN out
    ELSE group_terzine_keep_short_from(verses, i + 3, Append(out,
            [urn |-> RangeUrn(Slice(verses, i, i + 3)),
             start_verso |-> verses[i + 1].number,
             end_verso |-> Slice(verses, i, i + 3)[Len(Slice(verses, i, i + 3))].number,
             rhyme_scheme |-> S_aba,
             versi |-> Urns(Slice(verses, i, i + 3))]))
group_terzine_keep_short(verses) == group_terzine_keep_short_from(verses, 0, <<>>)

group_terzine(verses) == group_terzine_from(verses, 0, <<>>)

(***************************************************************************)
(* make_blocks: the loop while i < n, from index i with the blocks         *)
(* collected so far.                                                       *)
(***************************************************************************)
Max(a, b) == IF a >= b THEN a ELSE b

Block(chunk) ==
    [urn |-> RangeUrn(chunk),
     start_verso |-> chunk[1].number,
     end_verso |-> chunk[Len(chunk)].number,
     versi |-> Urns(chunk),
     ssml |-> ssml_block(Texts(chunk))]

RECURSIVE make_blocks_from(_, _, _, _, _)
make_blocks_from(verses, size, step, i, blocks) ==
    IF ~(i < Len(verses)) THEN blocks
    ELSE LET chunk == Slice(verses, i, i + size)
         IN  IF chunk = <<>> THEN blocks
             ELSE IF i + size >= Len(verses) THEN Append(blocks, Block(chunk))
             ELSE make_blocks_from(verses, size, step, i + step, Append(blocks, Block(chunk)))

\* the loop without the early exit "if i + size >= n: break"
RECURSIVE make_blocks_noexit_from(_, _, _, _, _)
make_blocks_noexit_from(verses, size, step, i, blocks) ==
    IF ~(i < Len(verses)) THEN blocks
    ELSE LET chunk == Slice(verses, i, i + size)
         IN  IF chunk = <<>> THEN blocks
             ELSE make_blocks_noexit_from(verses, size, step, i + step,
                                          Append(blocks, Block(chunk)))
make_blocks_noexit(verses, size, overlap) ==
    IF size <= 0 THEN <<>>
    ELSE make_blocks_noexit_from(verses, size, Max(1, size - overlap), 0, <<>>)

make_blocks(verses, size, overlap) ==
    IF size <= 0 THEN <<>>
    ELSE make_blocks_from(verses, size, Max(1, size - overlap), 0, <<>>)

(***************************************************************************)
(* class CantoBuffer: a record [cantica, canto_num, verses].               *)
(***************************************************************************)
CantoBuffer(cantica, canto_num) ==
    [cantica |-> cantica, canto_num |-> canto_num, verses |-> <<>>]

Verse(buf, n, text) ==
    [urn |-> verse_urn(buf.cantica, buf.canto_num, n),
     number |-> n,
     text_original |-> text,
     last_word |-> last_word(text),
     rhyme_letter |-> <<S_aba[((n - 1) % 3) + 1]>>,
     ssml |-> ssml_for_verso(text)]

\* the buffer after self.add_verse(text)
add_verse_renumber(buf, text) ==
    [buf EXCEPT !.verses = Append(@, Verse(buf, Len(buf.verses), text))]

add_verse(buf, text) ==
    [buf EXCEPT !.verses = Append(@, Verse(buf, Len(buf.verses) + 1, text))]

\* the dict to_json returns, given the terzine and the blocks it computed
CantoJson(buf, source_pdf, pages_range, terzine, blocks) ==
    [cantica |-> buf.cantica,
     canto |-> buf.canto_num,
     source |-> [pdf |-> source_pdf, pages |-> pages_range],
     counts |-> [versi |-> Len(buf.verses), terzine |-> Len(terzine),
                 recitation_blocks |-> Len(blocks)],
     versi |-> buf.verses,
     terzine |-> terzine,
     recitation_blocks |-> blocks]

to_json(buf, source_pdf, pages_range, size, overlap) ==
    CantoJson(buf, source_pdf, pages_range,
              group_terzine(buf.verses), make_blocks(buf.verses, size, overlap))


(***************************************************************************)
(* The single-canto pipeline (divina_pipeline.py): its own copies of the   *)
(* helpers, and pipeline() from the lines extract_lines_from_pdf returns.  *)
(***************************************************************************)
S_inferno == <<"i","n","f","e","r","n","o">>
S_purgatorio == <<"p","u","r","g","a","t","o","r","i","o">>
S_paradiso == <<"p","a","r","a","d","i","s","o">>
CANTICA_MAP == [k \in {S_inferno, S_purgatorio, S_paradiso} |->
    IF k = S_inferno THEN S_Inferno ELSE IF k = S_purgatorio THEN S_Purgatorio ELSE S_Paradiso]

create_urn(cantica, canto, verse_number) ==
    IF short_cantica(cantica) = ValueError THEN ValueError
    ELSE short_cantica(cantica) \o <<".">> \o Fmt(canto, 2) \o <<".">> \o Fmt(verse_number, 3)

make_ssml_for_verso(text) ==
    LET safe == Replace(Replace(Replace(text, "&", S_amp), "<", S_lt), ">", S_gt)
    IN  S_s_open \o safe \o S_s_close

RECURSIVE make_ssml_for_block_parts(_, _)
make_ssml_for_block_parts(verses_texts, i) ==
    IF i > Len(verses_texts) THEN <<>>
    ELSE S_s_open \o verses_texts[i] \o S_s_close
           \o (IF i % 3 = 0 THEN S_break_220 ELSE S_break_120)
           \o make_ssml_for_block_parts(verses_texts, i + 1)
make_ssml_for_block(verses_texts) ==
    S_p_open \o make_ssml_for_block_parts(verses_texts, 1) \o S_p_close

\* start_urn.rsplit('.', 1)[0]
RECURSIVE BeforeLastDot(_)
BeforeLastDot(u) ==
    IF u = <<>> THEN <<>>
    ELSE IF u[Len(u)] = "." THEN SubSeq(u, 1, Len(u) - 1)
    ELSE BeforeLastDot(SubSeq(u, 1, Len(u) - 1))
\* f"{start_urn.rsplit('.',1)[0]}.{start_no:03d}-{end_no:03d}"
RangeUrnDot(chunk) ==
    LET u == chunk[1].urn
        head == IF \E k \in 1..Len(u) : u[k] = "." THEN BeforeLastDot(u) ELSE u
    IN  head \o <<".">> \o Fmt(chunk[1].number, 3) \o <<"-">>
          \o Fmt(chunk[Len(chunk)].number, 3)

RECURSIVE pipeline_group_terzine_from(_, _, _)
pipeline_group_terzine_from(verses, i, terzine) ==
    IF i >= Len(verses) THEN terzine
    ELSE LET chunk == Slice(verses, i, i + 3)
         IN  IF Len(chunk) < 3 THEN terzine
             ELSE pipeline_group_terzine_from(verses, i + 3, Append(terzine,
                    [urn |-> RangeUrnDot(chunk),
                     start_verso |-> chunk[1].number,
                     end_verso |-> chunk[Len(chunk)].number,
                     rhyme_scheme |-> S_aba,
                     versi |-> Urns(chunk)]))
pipeline_group_terzine(verses) == pipeline_group_terzine_from(verses, 0, <<>>)

RECURSIVE build_recitation_blocks_from(_, _, _, _, _)
build_recitation_blocks_from(verses, block_size, step, i, blocks) ==
    IF ~(i < Len(verses)) THEN blocks
    ELSE LET chunk == Slice(verses, i, i + block_size)
             b == [urn |-> RangeUrnDot(chunk),
                   start_verso |-> chunk[1].number,
                   end_verso |-> chunk[Len(chunk)].number,
                   versi |-> Urns(chunk),
                   ssml |-> make_ssml_for_block(Texts(chunk))]
         IN  IF chunk = <<>> THEN blocks
             ELSE IF i + block_size >= Len(verses) THEN Append(blocks, b)
             ELSE build_recitation_blocks_from(verses, block_size, step, i + step,
                                               Append(blocks, b))
build_recitation_blocks(verses, block_size, overlap) ==
    IF block_size <= 0 THEN <<>>
    ELSE build_recitation_blocks_from(verses, block_size, Max(1, block_size - overlap),
                                      0, <<>>)

rhyme_letter_for_terzina_local(idx_in_terzina) == <<S_aba[idx_in_terzina + 1]>>

\* the loop "for line in lines" of pipeline(): verses from lines[k..], the
\* counters being verse_counter and terzina_pos
RECURSIVE pipeline_verses(_, _, _, _, _, _)
pipeline_verses(lines, k, cantica_std, canto, verse_counter, terzina_pos) ==
    IF k > Len(lines) THEN <<>>
    ELSE <<[urn |-> create_urn(cantica_std, canto, verse_counter),
            number |-> verse_counter,
            text_original |-> lines[k],
            last_word |-> last_word(lines[k]),
            rhyme_letter |-> rhyme_letter_for_terzina_local(terzina_pos),
            ssml |-> make_ssml_for_verso(lines[k])]>>
         \o pipeline_verses(lines, k + 1, cantica_std, canto, verse_counter + 1,
                            (terzina_pos + 1) % 3)

\* CANTICA_MAP.get(cantica.strip().lower(), cantica)
CanticaStd(cantica, key) == IF key \in DOMAIN CANTICA_MAP THEN CANTICA_MAP[key] ELSE cantica

\* the payload, given the verses, the terzine and the blocks pipeline() computed
Payload(pdf_path, cantica_std, canto, start_page, end_page, verses, terzine, blocks) ==
    [cantica |-> cantica_std,
     canto |-> canto,
     source |-> [pdf |-> pdf_path, pages |-> <<start_page, end_page>>],
     counts |-> [versi |-> Len(verses), terzine |-> Len(terzine),
                 recitation_blocks |-> Len(blocks)],
     versi |-> verses,
     terzine |-> terzine,
     recitation_blocks |-> blocks]

PipelineFrom(pdf_path, cantica_std, canto, start_page, end_page, size, overlap, verses) ==
    Payload(pdf_path, cantica_std, canto, start_page, end_page, verses,
            pipeline_group_terzine(verses), build_recitation_blocks(verses, size, overlap))

pipeline(lines, pdf_path, cantica, canto, start_page, end_page, size, overlap) ==
    PipelineFrom(pdf_path, CanticaStd(cantica, Lower(Strip(cantica))), canto,
                 start_page, end_page, size, overlap,
                 pipeline_verses(lines, 1, CanticaStd(cantica, Lower(Strip(cantica))),
                                 canto, 1, 0))


(***************************************************************************)
(* The inputs: what page.extract_text().splitlines() may hand to parse_pdf *)
(* (RawLines), the texts of the verses of the stand-alone canto            *)
(* (VerseTexts), and the command line.                                     *)
(***************************************************************************)
RawLines == {
    <<"I","N","F","E","R","N","O">>,
    <<"p","u","r","g","a","t","o","r","i","o"," ">>,
    <<"P","A","R","A","D","I","S","O">>,
    <<"C","A","N","T","O"," ","P","R","I","M","O">>,
    <<"C","A","N","T","O">>,
    <<"4","7">>,
    <<"N","e","l"," ","m","e","z","SHY","z","o">>,
    <<" ">> }

\* parse_pdf: [clean_line(x) for x in text.splitlines() if clean_line(x)]
CleanInput(raws) == {clean_line(x) : x \in raws} \ {<<>>}
Lines == CleanInput(RawLines)

VerseTexts == { <<"N","e","l"," ","m","e","z","z","o">>, <<"a","&","b","<","c",">">> }

PDF == "Petrocchi.pdf"
DefaultBlockSize == 12
DefaultBlockOverlap == 0

VARIABLES
    pc,                 \* "loop" | "done" | "error" (run_pipeline); "buffer" | "emitted"
    page_idx,           \* enumerate(pages_lines): the page being read, -1 before the first
    current_cantica,    \* run_pipeline's locals, each None or Some(value)
    current_canto_num,
    canto_buf,
    canto_start_page,
    manifest,           \* [canti, last_canto]: "canti" and, as a function on the cantiche
                        \* that have one, the "__last_canto_<cantica>" keys
    files,              \* the json.dump calls of close_canto, in order: [file, data]
    block_size,
    block_overlap,
    data,               \* stand-alone canto: the result of CantoBuffer.to_json
    payload,            \* stand-alone canto: the result of pipeline() on the same lines
    last,               \* history: the line the last step consumed, with its matches
    nlines,             \* history: the number of lines consumed
    opened,             \* history: the number of canto markers seen with a part set
    buf_origin,         \* history: where the open canto's marker and verses were read
    rec_origin          \* history: the same for each closed canto, in closing order

vars == <<pc, page_idx, current_cantica, current_canto_num, canto_buf, canto_start_page,
          manifest, files, block_size, block_overlap, data, payload,
          last, nlines, opened, buf_origin, rec_origin>>

\* the variables of run_pipeline that close_canto and the loop body read and write
progvars == <<current_cantica, current_canto_num, canto_buf, canto_start_page,
              manifest, files>>

State == [current_cantica |-> current_cantica,
          current_canto_num |-> current_canto_num,
          canto_buf |-> canto_buf,
          canto_start_page |-> canto_start_page,
          manifest |-> manifest,
          files |-> files,
          raised |-> FALSE]

(***************************************************************************)
(* run_pipeline.  Each handler maps the state before to the state after;   *)
(* raised is set when short_cantica raises ValueError, which aborts the    *)
(* run.                                                                    *)
(***************************************************************************)
\* f"{short_cantica(current_cantica)}_{canto_buf.canto_num:02d}.json"
FileName(cantica, canto_num) ==
    short_cantica(cantica) \o <<"_">> \o Fmt(canto_num, 2) \o <<".","j","s","o","n">>

\* dict.get(key) is None, d[key], d[key] = v
HasKey(d, k) == k \in DOMAIN d
SetKey(d, k, v) == [x \in (DOMAIN d) \cup {k} |-> IF x = k THEN v ELSE d[x]]
EmptyDict == [x \in {} |-> 0]

\* close_canto once data and fpath are computed: the dump, the manifest entry, the resets
Closed(st, fpath, d) ==
    [st EXCEPT
        !.files = Append(@, [file |-> fpath, data |-> d]),
        !.manifest.canti = Append(@, [cantica |-> st.current_cantica,
                                      canto |-> st.current_canto_num,
                                      file |-> fpath,
                                      counts |-> d.counts]),
        !.canto_buf = None,
        !.current_canto_num = None,
        !.canto_start_page = None]

\* close_canto without "canto_buf = None"
close_canto_keep_open(st, end_page_idx) ==
    IF st.canto_buf = None THEN st
    ELSE IF short_cantica(st.current_cantica[1]) = ValueError
    THEN [st EXCEPT !.raised = TRUE]
    ELSE [Closed(st, FileName(st.current_cantica[1], st.canto_buf[1].canto_num),
                 to_json(st.canto_buf[1], PDF,
                         <<(IF st.canto_start_page = None THEN 0
                            ELSE st.canto_start_page[1]) + 1,
                           end_page_idx + 1>>,
                         block_size, block_overlap))
            EXCEPT !.canto_buf = st.canto_buf]

close_canto(st, end_page_idx) ==
    IF st.canto_buf = None THEN st
    ELSE IF short_cantica(st.current_cantica[1]) = ValueError
    THEN [st EXCEPT !.raised = TRUE]
    ELSE Closed(st, FileName(st.current_cantica[1], st.canto_buf[1].canto_num),
                to_json(st.canto_buf[1], PDF,
                        <<(IF st.canto_start_page = None THEN 0
                           ELSE st.canto_start_page[1]) + 1,
                          end_page_idx + 1>>,
                        block_size, block_overlap))

\* current_cantica = CANTICHE_TITLES[title], c being the state close_canto left
SetCantica(c, title) ==
    IF c.raised THEN c ELSE [c EXCEPT !.current_cantica = Some(CANTICHE_TITLES[title])]

\* the branch with the counters of all parts dropped at a part heading
on_cantica_header_reset(st, idx, title) ==
    [SetCantica(close_canto(st, idx - 1), title) EXCEPT !.manifest.last_canto = EmptyDict]

\* the branch without its close_canto call
on_cantica_header_noclose(st, idx, title) == SetCantica(st, title)

\* if CANTICA_HEADER_RE.match(line): ... (title is the match's group(1).upper())
on_cantica_header(st, idx, title) == SetCantica(close_canto(st, idx - 1), title)

\* manifest.get(f"__last_canto_{current_cantica}") is None and what follows
NextNum(c) ==
    IF ~HasKey(c.manifest.last_canto, c.current_cantica[1]) THEN 1
    ELSE c.manifest.last_canto[c.current_cantica[1]] + 1

\* the new canto, c being the state close_canto left
OpenCanto(c, idx) ==
    IF c.raised THEN c
    ELSE [c EXCEPT !.manifest.last_canto = SetKey(@, c.current_cantica[1], NextNum(c)),
                   !.current_canto_num = Some(NextNum(c)),
                   !.canto_buf = Some(CantoBuffer(c.current_cantica[1], NextNum(c))),
                   !.canto_start_page = Some(idx)]

\* if CANTO_HEADER_RE.match(line): ...
on_canto_header(st, idx) ==
    IF st.current_cantica = None THEN st
    ELSE OpenCanto(close_canto(st, idx - 1), idx)

\* if canto_buf is not None and is_probable_verse(line): canto_buf.add_verse(line)
on_other_line(st, m) ==
    IF st.canto_buf # None /\ m.probable_verse
    THEN IF short_cantica(st.canto_buf[1].cantica) = ValueError
         THEN [st EXCEPT !.raised = TRUE]
         ELSE [st EXCEPT !.canto_buf = Some(add_verse(st.canto_buf[1], m.line))]
    ELSE st

\* the body of "for line in lines", m being the line with its matches
process_line(st, idx, m) ==
    IF m.cantica_header THEN on_cantica_header(st, idx, m.title)
    ELSE IF m.canto_header THEN on_canto_header(st, idx)
    ELSE on_other_line(st, m)

\* the classes of section 4.1 of the specification, in its precedence
Classify(l) ==
    IF looks_like_noise(l) THEN "Noise"
    ELSE IF CANTICA_HEADER_RE(l) THEN "PartMarker"
    ELSE IF CANTO_HEADER_RE(l) THEN "CantoMarker"
    ELSE IF is_probable_verse(l) THEN "Verse"
    ELSE "Rejected"

\* A line with the results of the matches the loop body makes on it, and its class.
\* The matches are functions of the line alone: they are made once for each line of
\* the input, not once for each state.
Scan(l) ==
    [line |-> l,
     cantica_header |-> CANTICA_HEADER_RE(l),
     title |-> IF CanticaGroups(l) # {} THEN CanticaTitle(l) ELSE None,
     canto_header |-> CANTO_HEADER_RE(l),
     probable_verse |-> is_probable_verse(l),
     class |-> Classify(l)]
Scanned == {Scan(l) : l \in Lines}

Init ==
    /\ pc = "loop"
    /\ page_idx = -1
    /\ current_cantica = None
    /\ current_canto_num = None
    /\ canto_buf = None
    /\ canto_start_page = None
    /\ manifest = [canti |-> <<>>, last_canto |-> EmptyDict]
    /\ files = <<>>
    /\ \E arg \in {<<DefaultBlockSize, DefaultBlockOverlap>>, <<2, 1>>} :
          block_size = arg[1] /\ block_overlap = arg[2]
    /\ data = None
    /\ payload = None
    /\ last = None
    /\ nlines = 0
    /\ opened = 0
    /\ buf_origin = None
    /\ rec_origin = <<>>

\* for page_idx, lines in enumerate(pages_lines): the next page begins
NextPage ==
    /\ pc = "loop"
    /\ page_idx + 1 < MaxPages
    /\ page_idx' = page_idx + 1
    /\ last' = None
    /\ UNCHANGED <<pc, current_cantica, current_canto_num, canto_buf, canto_start_page,
                   manifest, files, block_size, block_overlap, data, payload,
                   nlines, opened, buf_origin, rec_origin>>

\* for line in lines: one line of the current page, as parse_pdf cleaned it
ProcessLine(m) ==
    /\ pc = "loop"
    /\ page_idx >= 0
    /\ nlines < MaxLines
    /\ \E st \in {process_line(State, page_idx, m)} :
       LET accepted == m.class = "CantoMarker" /\ current_cantica # None
           closed == Len(st.files) > Len(files)
           added == /\ canto_buf # None /\ st.canto_buf # None
                    /\ Len(st.canto_buf[1].verses) = Len(canto_buf[1].verses) + 1
       IN  /\ pc' = IF st.raised THEN "error" ELSE "loop"
           /\ current_cantica' = st.current_cantica
           /\ current_canto_num' = st.current_canto_num
           /\ canto_buf' = st.canto_buf
           /\ canto_start_page' = st.canto_start_page
           /\ manifest' = st.manifest
           /\ files' = st.files
           /\ last' = Some(m)
           /\ nlines' = nlines + 1
           /\ opened' = IF accepted THEN opened + 1 ELSE opened
           /\ rec_origin' = IF closed THEN rec_origin \o buf_origin ELSE rec_origin
           /\ buf_origin' =
                IF accepted
                THEN Some([marker_page |-> page_idx, marker_line |-> nlines + 1,
                           verses |-> <<>>])
                ELSE IF closed THEN None
                ELSE IF added /\ buf_origin # None
                THEN Some([buf_origin[1] EXCEPT
                        !.verses = Append(@, [line |-> nlines + 1, page |-> page_idx])])
                ELSE buf_origin
    /\ UNCHANGED <<page_idx, block_size, block_overlap, data, payload>>

\* after the loop: close_canto(len(pages_lines) - 1), drop the "__last_canto_" keys
EndOfInput ==
    /\ pc = "loop"
    /\ \E st \in {close_canto(State, page_idx)} :
       LET closed == Len(st.files) > Len(files)
       IN  /\ pc' = IF st.raised THEN "error" ELSE "done"
           /\ current_cantica' = st.current_cantica
           /\ current_canto_num' = st.current_canto_num
           /\ canto_buf' = st.canto_buf
           /\ canto_start_page' = st.canto_start_page
           /\ manifest' = IF st.raised THEN st.manifest
                          ELSE [st.manifest EXCEPT !.last_canto = EmptyDict]
           /\ files' = st.files
           /\ rec_origin' = IF closed THEN rec_origin \o buf_origin ELSE rec_origin
           /\ buf_origin' = IF closed THEN None ELSE buf_origin
    /\ UNCHANGED <<page_idx, block_size, block_overlap, data, payload, nlines, opened>>
    /\ last' = None

Next == NextPage \/ (\E m \in Scanned : ProcessLine(m)) \/ EndOfInput

Spec == Init /\ [][Next]_vars

(***************************************************************************)
(* One canto on its own: a CantoBuffer filled by add_verse and serialised  *)
(* by to_json, and pipeline() of divina_pipeline.py run on the same lines. *)
(***************************************************************************)
InitCanto ==
    /\ pc = "buffer"
    /\ \E arg \in {<<S_Inferno, 1>>, <<S_Purgatorio, 12>>} :
          canto_buf = Some(CantoBuffer(arg[1], arg[2]))
    /\ block_size \in (-1)..MaxBlockSize
    /\ block_overlap \in (-1)..MaxBlockSize
    /\ data = None
    /\ payload = None
    /\ page_idx = 0
    /\ current_cantica = None
    /\ current_canto_num = None
    /\ canto_start_page = None
    /\ manifest = [canti |-> <<>>, last_canto |-> EmptyDict]
    /\ files = <<>>
    /\ last = None
    /\ nlines = 0
    /\ opened = 0
    /\ buf_origin = None
    /\ rec_origin = <<>>

\* canto_buf.add_verse(text)
AddVerse(text) ==
    /\ pc = "buffer"
    /\ Len(canto_buf[1].verses) < MaxVerses
    /\ canto_buf' = Some(add_verse(canto_buf[1], text))
    /\ UNCHANGED <<pc, page_idx, current_cantica, current_canto_num, canto_start_page,
                   manifest, files, block_size, block_overlap, data, payload,
                   last, nlines, opened, buf_origin, rec_origin>>

\* canto_buf.to_json(...), and pipeline(...) on the texts of the same verses
Emit ==
    /\ pc = "buffer"
    /\ pc' = "emitted"
    /\ data' = Some(to_json(canto_buf[1], PDF, <<1, 1>>, block_size, block_overlap))
    /\ payload' = Some(pipeline(Texts(canto_buf[1].verses), PDF, Lower(canto_buf[1].cantica),
                                canto_buf[1].canto_num, 1, 1, block_size, block_overlap))
    /\ UNCHANGED <<page_idx, current_cantica, current_canto_num, canto_buf,
                   canto_start_page, manifest, files, block_size, block_overlap,
                   last, nlines, opened, buf_origin, rec_origin>>

NextCanto == (\E text \in VerseTexts : AddVerse(text)) \/ Emit

SpecCanto == InitCanto /\ [][NextCanto]_vars

(***************************************************************************)
(* Properties of one canto (checked under SpecCanto).                      *)
(***************************************************************************)
Min(a, b) == IF a <= b THEN a ELSE b

RECURSIVE Flatten(_)
Flatten(ss) == IF ss = <<>> THEN <<>> ELSE Head(ss) \o Flatten(Tail(ss))

\* the verses have the numbers 1..n
Numbered(verses) == \A i \in 1..Len(verses) : verses[i].number = i

\* the terzine are the floor(n/3) consecutive triples of the verses
TerzineOf(verses, terzine) ==
    LET n == Len(verses)
        InStanza(i, k) == \E j \in 1..Len(terzine[k].versi) :
                              terzine[k].versi[j] = verses[i].urn
    IN  /\ Len(terzine) = n \div 3
        /\ \A k \in 1..Len(terzine) :
              /\ terzine[k].start_verso = 3 * (k - 1) + 1
              /\ terzine[k].end_verso = 3 * (k - 1) + 3
              /\ terzine[k].versi = << verses[3 * k - 2].urn, verses[3 * k - 1].urn,
                                       verses[3 * k].urn >>
        /\ Flatten(Map(LAMBDA t : t.versi, terzine))
             = SubSeq(Urns(verses), 1, 3 * (n \div 3))
        /\ \A i \in 1..n :
              /\ Cardinality({k \in 1..Len(terzine) : InStanza(i, k)}) <= 1
              /\ i > 3 * (n \div 3) => \A k \in 1..Len(terzine) : ~InStanza(i, k)

\* C4: for every verse list numbered 1..n, group_terzine returns floor(n/3) stanzas,
\* stanza k (0-based) spanning the verses 3k+1..3k+3 and referencing them in order;
\* the references concatenated are the verse identifiers truncated to 3*floor(n/3);
\* a verse is in at most one stanza and the last n mod 3 verses are in none.
C4_GroupTerzine ==
    pc = "emitted" =>
        /\ Numbered(data[1].versi)
        /\ TerzineOf(data[1].versi, data[1].terzine)
        /\ TerzineOf(payload[1].versi, payload[1].terzine)

\* seven verses: two stanzas, and the seventh verse in none
C4_Witness ==
    /\ pc = "emitted"
    /\ Len(data[1].versi) = 7
    /\ Len(data[1].terzine) = 2

\* the blocks are the windows at 0, s, 2s, ... up to the first that reaches n
BlocksOf(verses, blocks, B, O) ==
    LET n == Len(verses)
        s == Max(1, B - O)
        count == IF n = 0 THEN 0
                 ELSE IF n <= B THEN 1
                 ELSE ((n - B) + (s - 1)) \div s + 1
    IN  /\ Len(blocks) = count
        /\ \A k \in 1..Len(blocks) :
              LET start == (k - 1) * s
                  len == Min(B, n - start)
              IN  /\ len >= 1
                  /\ blocks[k].start_verso = start + 1
                  /\ blocks[k].end_verso = start + len
                  /\ blocks[k].versi = SubSeq(Urns(verses), start + 1, start + len)
        /\ \A i \in 1..n : \E k \in 1..Len(blocks) :
              blocks[k].start_verso <= i /\ i <= blocks[k].end_verso
        /\ n > 0 => /\ blocks[Len(blocks)].end_verso = n
                    /\ Cardinality({k \in 1..Len(blocks) : blocks[k].end_verso = n}) = 1

\* C5: for block size B > 0 and overlap 0 <= O < B, make_blocks returns the windows
\* starting at 0, s, 2s, ... (s = max(1, B - O)), each of min(B, n - start) verses, up
\* to the first window that reaches n: no verse is skipped, only the last block ends
\* at verse n, and there are 0, 1 or ceil((n - B)/s) + 1 blocks.
C5_MakeBlocks ==
    (pc = "emitted" /\ block_size > 0 /\ 0 <= block_overlap /\ block_overlap < block_size) =>
        /\ BlocksOf(data[1].versi, data[1].recitation_blocks, block_size, block_overlap)
        /\ BlocksOf(payload[1].versi, payload[1].recitation_blocks, block_size, block_overlap)

\* n = 5, B = 3, O = 1: the blocks [1-3] and [3-5]
C5_Witness ==
    /\ pc = "emitted"
    /\ block_size = 3 /\ block_overlap = 1
    /\ Len(data[1].versi) = 5
    /\ Len(data[1].recitation_blocks) = 2
    /\ data[1].recitation_blocks[2].start_verso = 3
    /\ data[1].recitation_blocks[2].end_verso = 5

\* the markup the claim gives a block of these verses, from the i-th verse of the block
RECURSIVE EscapedParts(_, _)
EscapedParts(chunk, i) ==
    IF i > Len(chunk) THEN <<>>
    ELSE chunk[i].ssml \o (IF i % 3 = 0 THEN S_break_220 ELSE S_break_120)
           \o EscapedParts(chunk, i + 1)

\* C9: the markup of every block of make_blocks is the concatenation, over its verses
\* in order, of the verse's own escaped ssml field and a pause (long at every third
\* position within the block, short otherwise), inside the block's <p> element.
C9_BlockMarkup ==
    pc = "emitted" =>
        \A k \in 1..Len(data[1].recitation_blocks) :
            LET b == data[1].recitation_blocks[k]
                chunk == SubSeq(data[1].versi, b.start_verso, b.end_verso)
            IN  b.ssml = S_p_open \o EscapedParts(chunk, 1) \o S_p_close

(***************************************************************************)
(* Properties of run_pipeline (checked under Spec).                        *)
(***************************************************************************)
\* the canto records so far: the dumped ones in closing order, then the open buffer
Records ==
    Map(LAMBDA f : [cantica |-> f.data.cantica, canto |-> f.data.canto,
                    versi |-> f.data.versi], files)
    \o (IF canto_buf = None THEN <<>>
        ELSE <<[cantica |-> canto_buf[1].cantica, canto |-> canto_buf[1].canto_num,
                versi |-> canto_buf[1].verses]>>)

\* where the lines of each of Records were read
Origins == rec_origin \o buf_origin

\* the canto numbers of the records of one part, in encounter order
CantoNumbers(c) ==
    Map(LAMBDA r : r.canto, SelectSeq(Records, LAMBDA r : r.cantica = c))

\* the line the step just taken consumed, if it consumed one
Consumed(class) == last # None /\ last[1].class = class

\* C1: the canto numbers of the records of one part are 1, 2, ..., k in the order of
\* their canto markers, also when part markers recur or the parts interleave: during
\* the run the counter of every part equals the number of its records, so no part
\* marker resets it and a canto marker increments only the current part's counter.
C1_CantoNumbers ==
    \A c \in Cantiche :
        /\ \A i \in 1..Len(CantoNumbers(c)) : CantoNumbers(c)[i] = i
        /\ pc = "loop" =>
              IF HasKey(manifest.last_canto, c)
              THEN manifest.last_canto[c] = Len(CantoNumbers(c))
              ELSE CantoNumbers(c) = <<>>

\* Inferno, Purgatorio, Inferno again: the third canto is Inferno 2
C1_Witness ==
    /\ Len(Records) = 3
    /\ Records[1].cantica = S_Inferno /\ Records[1].canto = 1
    /\ Records[2].cantica = S_Purgatorio /\ Records[2].canto = 1
    /\ Records[3].cantica = S_Inferno /\ Records[3].canto = 2

\* C2: every canto opened by an accepted canto marker is finalized exactly once, at the
\* next accepted canto marker, the next part marker or the end of input: at most one
\* canto is open, every finalization adds one manifest entry and one file, in the order
\* the cantos were opened; at the end the manifest has one entry per accepted canto
\* marker and no (part, canto number) pair twice.
C2_FinalizedOnce ==
    /\ Len(manifest.canti) = Len(files)
    /\ Len(rec_origin) = Len(files)
    /\ Len(files) + (IF canto_buf = None THEN 0 ELSE 1) = opened
    /\ (canto_buf = None) = (buf_origin = None)
    /\ Consumed("PartMarker") => canto_buf = None
    /\ (Consumed("CantoMarker") /\ current_cantica # None) =>
          /\ canto_buf # None /\ canto_buf[1].verses = <<>>
          /\ buf_origin[1].marker_line = nlines
    /\ \A i \in 1..Len(files) : manifest.canti[i].file = files[i].file
    /\ \A i, j \in 1..Len(Origins) : i < j => Origins[i].marker_line < Origins[j].marker_line
    /\ \A i, j \in 1..Len(manifest.canti) :
          i # j => <<manifest.canti[i].cantica, manifest.canti[i].canto>>
                     # <<manifest.canti[j].cantica, manifest.canti[j].canto>>
    /\ pc = "done" => canto_buf = None /\ Len(manifest.canti) = opened

\* three cantos, closed by a canto marker, by a part marker and by the end of input
C2_Witness ==
    /\ pc = "done"
    /\ Len(manifest.canti) = 3
    /\ opened = 3
    /\ manifest.canti[2].cantica = Some(S_Inferno) /\ manifest.canti[2].canto = Some(2)
    /\ manifest.canti[3].cantica = Some(S_Paradiso)

\* the number of verses in all records
RECURSIVE TotalVerses(_)
TotalVerses(recs) ==
    IF recs = <<>> THEN 0 ELSE Len(Head(recs).versi) + TotalVerses(Tail(recs))

\* the input lines that became verses, record by record
VerseLines == Flatten(Map(LAMBDA o : Map(LAMBDA v : v.line, o.verses), Origins))

C3_Numbered ==
    /\ \A i \in 1..Len(Records) : Numbered(Records[i].versi)
    /\ Len(Origins) = Len(Records)
    /\ \A i \in 1..Len(Records) : Len(Origins[i].verses) = Len(Records[i].versi)
    /\ \A i, j \in 1..Len(VerseLines) : i < j => VerseLines[i] < VerseLines[j]

C3_Step ==
    /\ (last' # None /\ last'[1].class = "Verse") =>
          IF canto_buf = None
          THEN UNCHANGED progvars
          ELSE /\ canto_buf' # None
               /\ canto_buf'[1].verses =
                     Append(canto_buf[1].verses,
                            Verse(canto_buf[1], Len(canto_buf[1].verses) + 1, last'[1].line))
               /\ canto_buf'[1].verses[Len(canto_buf'[1].verses)].number
                     = Len(canto_buf[1].verses) + 1
               /\ UNCHANGED <<current_cantica, current_canto_num, canto_start_page,
                              manifest, files>>
    /\ (last' = None \/ last'[1].class # "Verse") => TotalVerses(Records)' = TotalVerses(Records)

\* C3: a line classified as Verse is appended iff a canto buffer is open, to that buffer
\* only and with number (buffer length + 1); with no buffer open it changes no state;
\* no other line adds a verse.  So in every record the verse numbers are 1..n in input
\* order and no input line is in two cantos.
C3_VerseAppend == [][C3_Step /\ C3_Numbered']_vars

\* a verse line dropped after a part marker closed the first canto, which holds a verse
C3_Witness ==
    /\ Consumed("Verse")
    /\ canto_buf = None
    /\ Len(files) = 1
    /\ Len(files[1].data.versi) = 1
    /\ nlines = 5

\* Python's str < str on the characters of the identifiers
RECURSIVE LexLess(_, _)
LexLess(a, b) ==
    IF b = <<>> THEN FALSE
    ELSE IF a = <<>> THEN TRUE
    ELSE IF Head(a) = Head(b) THEN LexLess(Tail(a), Tail(b))
    ELSE Ord(Head(a)) < Ord(Head(b))

\* every verse of the run with its part, in the order the verses were read
AllVerses ==
    Flatten(Map(LAMBDA r : Map(LAMBDA v : [cantica |-> r.cantica, urn |-> v.urn], r.versi),
                Records))

\* C6 as stated: the verse identifiers of one run are pairwise distinct, and sorting them
\* as strings yields the verses in the order they were read.
C6_Sortable ==
    \A i, j \in 1..Len(AllVerses) : i < j => LexLess(AllVerses[i].urn, AllVerses[j].urn)

\* C6 amended: the verse identifiers of one run are pairwise distinct, and for the verses
\* of one part (fewer than 100 cantos of fewer than 1000 verses) the order of the
\* identifiers as strings is the order in which the verses were read.
C6_SortableWithinPart ==
    \A i, j \in 1..Len(AllVerses) : i < j =>
        /\ AllVerses[i].urn # AllVerses[j].urn
        /\ AllVerses[i].cantica = AllVerses[j].cantica =>
              LexLess(AllVerses[i].urn, AllVerses[j].urn)

\* two cantos of one part with one verse each
C6_Witness ==
    /\ Len(AllVerses) = 2
    /\ Len(Records) = 2
    /\ AllVerses[1].cantica = S_Inferno
    /\ AllVerses[2].cantica = S_Inferno
    /\ AllVerses[1].urn = <<"i","n","f",".","0","1",".","0","0","1">>
    /\ AllVerses[2].urn = <<"i","n","f",".","0","2",".","0","0","1">>

C7_Step ==
    last' # None =>
        /\ last'[1].cantica_header = (last'[1].class = "PartMarker")
        /\ last'[1].canto_header = (last'[1].class = "CantoMarker")
        /\ last'[1].probable_verse = (last'[1].class = "Verse")
        /\ last'[1].class = "Noise" => UNCHANGED progvars

C8_SourcePages ==
    \A i \in 1..Len(files) :
        LET pages == files[i].data.source.pages
            o == rec_origin[i]
        IN  /\ 1 <= pages[1]
            /\ pages[1] <= pages[2]
            /\ pages[2] <= page_idx + 1
            /\ pages[1] = o.marker_page + 1
            /\ \A k \in 1..Len(o.verses) :
                  pages[1] <= o.verses[k].page + 1 /\ o.verses[k].page + 1 <= pages[2]

C10_Consistent ==
    /\ pc # "error"
    /\ canto_buf # None =>
          /\ current_cantica # None
          /\ current_cantica[1] \in Cantiche
          /\ current_cantica[1] = canto_buf[1].cantica
          /\ current_canto_num = Some(canto_buf[1].canto_num)
          /\ short_cantica(current_cantica[1]) # ValueError
    /\ Len(manifest.canti) = Len(files)
    /\ \A i \in 1..Len(files) :
          /\ manifest.canti[i].cantica = Some(files[i].data.cantica)
          /\ manifest.canti[i].canto = Some(files[i].data.canto)
          /\ manifest.canti[i].counts = files[i].data.counts
          /\ files[i].data.cantica \in Cantiche
          /\ files[i].data.versi = <<>> =>
                files[i].data.counts = [versi |-> 0, terzine |-> 0, recitation_blocks |-> 0]

C10_Step ==
    (last' # None /\ last'[1].class = "CantoMarker" /\ current_cantica = None) =>
        UNCHANGED progvars

\* C10: the run never reaches the configuration error: a canto marker read while no part
\* is set changes no state; with a canto open the current part is one of the three
\* parts and it and the current canto number are the open canto's; every manifest
\* entry names the part, number and counts of its record; a canto closed with no verse
\* has all counts 0.
C10_NoConfigError == [][C10_Step /\ C10_Consistent']_vars

\* a canto marker was ignored before any part, and a canto was closed with no verse
C10_Witness ==
    /\ Len(files) = 1
    /\ files[1].data.counts = [versi |-> 0, terzine |-> 0, recitation_blocks |-> 0]
    /\ rec_origin[1].marker_line = 3
    /\ canto_buf # None
    /\ current_cantica = Some(S_Paradiso)

=============================================================================
